---- MODULE Spec2Model ----
(***************************************************************************)
(* zipline/finance/trading.py: the trading calendar (TradingEnvironment),  *)
(* the module-global `environment` with its scoped override, and the       *)
(* alignment of a simulation period to the calendar (SimulationParameters).*)
(*                                                                         *)
(* Time is counted in ticks; a calendar day is TicksPerDay ticks long and  *)
(* every timestamp is a UTC instant.  Tick 0 of a day is its midnight.     *)
(***************************************************************************)
EXTENDS Integers, Sequences, FiniteSets, TLC

NumDays == 4
TicksPerDay == 3
MaxEnvs == 3
MaxDepth == 2

VARIABLES
    universe,     \* the days the calendar provider knows as trading days
    envs,         \* the heap of TradingEnvironment objects, by reference
    environment,  \* the module global `environment` (a reference)
    stack,        \* the `with` blocks that are open, innermost last
    exc,          \* the exception in flight, "none" when there is none
    sp,           \* the SimulationParameters object under construction / built
    call          \* the frame of the calendar query in progress / returned

vars == <<universe, envs, environment, stack, exc, sp, call>>

----------------------------------------------------------------------------
(* Values *)

None == <<>>
Some(v) == <<v>>

NullRef == 0
Refs == 1..MaxEnvs

Days == 0..(NumDays - 1)
Timestamps == 0..(NumDays * TicksPerDay - 1)
MaxTs == (NumDays + 1) * TicksPerDay
MinTs == 0 - (2 * TicksPerDay)

two_days == 2 * TicksPerDay

one_day == TicksPerDay

Midnight(d) == d * TicksPerDay

\* day.date(): the calendar date of a timestamp
DateOf(t) == t \div TicksPerDay

\* the ascending sequence of the members of a finite set of integers
SortedSeq(S) ==
    [i \in 1..Cardinality(S) |->
        CHOOSE x \in S : Cardinality({y \in S : y < x}) = i - 1]

Contains(seq, x) == \E i \in 1..Len(seq) : seq[i] = x

\* Python's seq[lo:hi] for integer lo, hi (negative indices count from the end)
PySlice(seq, lo, hi) ==
    LET n == Len(seq)
        clamp(k) == IF k < 0 THEN (IF k + n < 0 THEN 0 ELSE k + n)
                    ELSE (IF k > n THEN n ELSE k)
        l == clamp(lo)
        h == clamp(hi)
    IN  IF h <= l THEN <<>> ELSE [i \in 1..(h - l) |-> seq[l + i]]

\* bisect.bisect_left on a sorted sequence: the leftmost 0-based insertion point
bisect_left(a, x) == Cardinality({i \in 1..Len(a) : a[i] < x})

\* DatetimeIndex.searchsorted (side='left'): the leftmost 0-based insertion point
searchsorted(a, x) == Cardinality({i \in 1..Len(a) : a[i] < x})

----------------------------------------------------------------------------
(* The calendar provider (zipline.utils.tradingcalendar), by its interface *)

MarketOpenOf(d) == Midnight(d) + 1
MarketCloseOf(d) == Midnight(d) + (TicksPerDay - 1)

\* trading_calendar_cls(start=start_date, end=end_date): the provider's days
\* restricted to the dates of the window; an absent end of the window is open
trading_calendar_cls(start, end) ==
    LET ds == {d \in universe :
                  /\ (start = None \/ DateOf(start[1]) <= d)
                  /\ (end = None \/ d <= DateOf(end[1]))}
    IN  [trading_days |-> SortedSeq({Midnight(d) : d \in ds}),
         open_and_closes |->
            [d \in ds |-> [market_open |-> MarketOpenOf(d),
                           market_close |-> MarketCloseOf(d)]]]

----------------------------------------------------------------------------
(* TradingEnvironment *)

NoEnv == [live |-> FALSE]

Live(h) == {r \in Refs : h[r].live}

\* __init__ raises IndexError at trading_days[0] when the provider has no day
InitRaises(start_date, end_date) ==
    Len(trading_calendar_cls(start_date, end_date).trading_days) = 0

\* the object __init__ leaves behind, at reference self
TradingEnvironment(self, start_date, end_date) ==
    LET trading_calendar == trading_calendar_cls(start_date, end_date)
        trading_days == trading_calendar.trading_days
    IN  [live |-> TRUE,
         prev_environment |-> self,
         trading_days |-> trading_days,
         first_trading_day |-> trading_days[1],
         last_trading_day |-> trading_days[Len(trading_days)],
         open_and_closes |-> trading_calendar.open_and_closes]

normalize_date(test_date) == test_date - (test_date % TicksPerDay)

is_trading_day(self, test_date) ==
    LET dt == normalize_date(test_date)
    IN  Contains(envs[self].trading_days, dt)

KeyError == [raise |-> "KeyError"]

get_open_and_close(self, day) ==
    LET table == envs[self].open_and_closes
    IN  IF DateOf(day) \in DOMAIN table
        THEN <<table[DateOf(day)].market_open, table[DateOf(day)].market_close>>
        ELSE KeyError

\* the distance with its sign turned
trading_day_distance_swapped(self, first_date, second_date) ==
    LET trading_days == envs[self].trading_days
        i == bisect_left(trading_days, normalize_date(first_date))
        j == bisect_left(trading_days, normalize_date(second_date))
    IN  IF i = Len(trading_days) \/ j = Len(trading_days) THEN None ELSE Some(i - j)

trading_day_distance(self, first_date, second_date) ==
    LET first == normalize_date(first_date)
        second == normalize_date(second_date)
        trading_days == envs[self].trading_days
        i == bisect_left(trading_days, first)
        j == bisect_left(trading_days, second)
    IN  IF i = Len(trading_days) THEN None
        ELSE IF j = Len(trading_days) THEN None
        ELSE Some(j - i)

\* the insertion point taken as it is, also for a day that is not in the calendar
get_index_insertion_point(self, dt) ==
    searchsorted(envs[self].trading_days, normalize_date(dt))

get_index(self, dt) ==
    LET ndt == normalize_date(dt)
        trading_days == envs[self].trading_days
    IN  IF Contains(trading_days, ndt)
        THEN searchsorted(trading_days, ndt)
        ELSE searchsorted(trading_days, ndt) - 1

----------------------------------------------------------------------------
(* References: an object no reference reaches is reclaimed *)

RECURSIVE Closure(_, _, _)
Closure(h, S, n) ==
    IF n = 0 THEN S
    ELSE Closure(h, S \cup {h[r].prev_environment : r \in {x \in S \cap Refs : h[x].live}}, n - 1)

Reach(h, roots) == Closure(h, roots \ {NullRef}, MaxEnvs) \ {NullRef}

Collect(h, roots) ==
    [r \in Refs |-> IF r \in Reach(h, roots) THEN h[r] ELSE NoEnv]

StackRefs(st) == {st[i].inst : i \in 1..Len(st)} \cup {st[i].before : i \in 1..Len(st)}

Roots(env, st, s, c) == {env, s.environment, c.self} \cup StackRefs(st)

CanAlloc(h, roots) == Reach(h, roots) # Refs

NewRef(h, roots) == CHOOSE r \in Refs \ Reach(h, roots) :
                        \A q \in Refs \ Reach(h, roots) : r <= q

----------------------------------------------------------------------------
(* State *)

SpIdle ==
    [pc |-> "idle", period_start |-> 0, period_end |-> 0,
     environment |-> NullRef, cursor |-> 0, steps_first |-> 0, steps_last |-> 0,
     first_open |-> 0, last_close |-> 0, trading_days |-> <<>>, error |-> "none"]

CallIdle ==
    [op |-> "none", pc |-> "idle", self |-> NullRef, a |-> 0, b |-> 0,
     dt |-> 0, result |-> None, hist |-> <<>>]

\* a call is running: nothing else happens until it returns or raises
Busy == sp.pc \in {"first_open", "last_close"} \/ call.pc = "loop"

\* the caller is free to start the next operation: nothing runs, nothing is
\* raised, and the last result has been let go
Ready == ~Busy /\ exc = "none" /\ sp.pc = "idle" /\ call.pc = "idle" /\ call.hist = <<>>

\* the caller has let go of everything but the result of a next_trading_day call
\* it means to compare the next one with
ReadyToRepeat == ~Busy /\ exc = "none" /\ sp.pc = "idle" /\ call.pc = "idle"

Windows == {None} \cup {Some(t) : t \in Timestamps}

InitState(u) ==
    /\ universe = u
    /\ envs = [r \in Refs |-> NoEnv]
    /\ environment = NullRef
    /\ stack = <<>>
    /\ exc = "none"
    /\ sp = SpIdle
    /\ call = CallIdle

----------------------------------------------------------------------------
(* The module global and its scoped override *)

\* trading.environment = TradingEnvironment(start_date=..., end_date=...)
SetEnvironment(start_date, end_date) ==
    /\ Ready
    /\ stack = <<>>
    /\ sp' = SpIdle
    /\ call' = CallIdle
    /\ UNCHANGED <<universe, stack>>
    /\ IF InitRaises(start_date, end_date)
       THEN /\ exc' = "IndexError"
            /\ environment' = environment
            /\ envs' = Collect(envs, {environment})
       ELSE LET e == NewRef(envs, {})
            IN  /\ exc' = exc
                /\ environment' = e
                /\ envs' = Collect([envs EXCEPT ![e] = TradingEnvironment(e, start_date, end_date)],
                                   {e})

\* __enter__ of the object at reference self
enter(self) ==
    /\ envs' = Collect([envs EXCEPT ![self].prev_environment = environment],
                       {self, environment} \cup StackRefs(stack))
    /\ environment' = self
    /\ stack' = Append(stack, [inst |-> self, before |-> environment])

\* with e: ... for an object e that already exists
Enter(self) ==
    /\ Ready
    /\ Len(stack) < MaxDepth
    /\ self \in Live(envs)
    /\ sp' = SpIdle
    /\ call' = CallIdle
    /\ enter(self)
    /\ UNCHANGED <<universe, exc>>

\* with TradingEnvironment(start_date=..., end_date=...): ...
EnterNew(start_date, end_date) ==
    /\ Ready
    /\ Len(stack) < MaxDepth
    /\ CanAlloc(envs, {environment} \cup StackRefs(stack))
    /\ sp' = SpIdle
    /\ call' = CallIdle
    /\ UNCHANGED universe
    /\ IF InitRaises(start_date, end_date)
       THEN /\ exc' = "IndexError"
            /\ envs' = Collect(envs, {environment} \cup StackRefs(stack))
            /\ UNCHANGED <<environment, stack>>
       ELSE LET e == NewRef(envs, {environment} \cup StackRefs(stack))
                made == [TradingEnvironment(e, start_date, end_date)
                            EXCEPT !.prev_environment = environment]
            IN  /\ exc' = exc
                /\ envs' = Collect([envs EXCEPT ![e] = made],
                                   {e, environment} \cup StackRefs(stack))
                /\ environment' = e
                /\ stack' = Append(stack, [inst |-> e, before |-> environment])

\* __exit__ of the innermost open block: it returns False, so an exception in
\* flight keeps propagating
Exit ==
    /\ ~Busy
    /\ stack # <<>>
    /\ LET self == stack[Len(stack)].inst
           st == SubSeq(stack, 1, Len(stack) - 1)
           env == envs[self].prev_environment
       IN  /\ environment' = env
           /\ stack' = st
           /\ envs' = Collect(envs, Roots(env, st, sp, call))
    /\ exc' = exc
    /\ UNCHANGED <<universe, sp, call>>

\* an except clause around the failed operation handles the exception
Catch ==
    /\ exc # "none"
    /\ exc' = "none"
    /\ UNCHANGED <<universe, envs, environment, stack, sp, call>>

----------------------------------------------------------------------------
(* SimulationParameters.__init__ *)

\* the assertions with one more: the period may not begin before the calendar
FailedAssertionStrict(self, period_start, period_end) ==
    IF ~(period_start <= period_end)
    THEN "Period start falls after period end."
    ELSE IF ~(period_start <= envs[self].last_trading_day)
    THEN "Period start falls after the last known trading day."
    ELSE IF ~(period_end >= envs[self].first_trading_day)
    THEN "Period end falls before the first known trading day."
    ELSE IF ~(period_start >= envs[self].first_trading_day)
    THEN "Period start falls before the first known trading day."
    ELSE "none"

\* the first assertion that fails, "none" when all three hold
FailedAssertion(self, period_start, period_end) ==
    IF ~(period_start <= period_end)
    THEN "Period start falls after period end."
    ELSE IF ~(period_start <= envs[self].last_trading_day)
    THEN "Period start falls after the last known trading day."
    ELSE IF ~(period_end >= envs[self].first_trading_day)
    THEN "Period end falls before the first known trading day."
    ELSE "none"

\* lines 214-234: the environment is built and installed, then the assertions
SPBegin(period_start, period_end) ==
    /\ Ready
    /\ CanAlloc(envs, StackRefs(stack))
    /\ call' = CallIdle
    /\ UNCHANGED <<universe, stack>>
    /\ IF InitRaises(Some(period_start), Some(period_end))
       THEN /\ exc' = "IndexError"
            /\ sp' = [SpIdle EXCEPT !.pc = "failed",
                                    !.period_start = period_start,
                                    !.period_end = period_end,
                                    !.error = "IndexError"]
            /\ environment' = environment
            /\ envs' = Collect(envs, {environment} \cup StackRefs(stack))
       ELSE LET e == NewRef(envs, StackRefs(stack))
                made == TradingEnvironment(e, Some(period_start), Some(period_end))
                failed == FailedAssertion(e, period_start, period_end)'
            IN  /\ environment' = e
                /\ envs' = Collect([envs EXCEPT ![e] = made], {e} \cup StackRefs(stack))
                /\ IF failed # "none"
                   THEN /\ exc' = "AssertionError"
                        /\ sp' = [SpIdle EXCEPT !.pc = "failed",
                                                !.period_start = period_start,
                                                !.period_end = period_end,
                                                !.environment = e,
                                                !.error = failed]
                   ELSE /\ exc' = exc
                        /\ sp' = [SpIdle EXCEPT !.pc = "first_open",
                                                !.period_start = period_start,
                                                !.period_end = period_end,
                                                !.environment = e,
                                                !.cursor = period_start]

\* calculate_first_open: one turn of the while loop
SPFirstOpenStep ==
    /\ sp.pc = "first_open"
    /\ ~is_trading_day(environment, sp.cursor)
    /\ sp.cursor + one_day <= MaxTs
    /\ sp' = [sp EXCEPT !.cursor = sp.cursor + one_day,
                        !.steps_first = sp.steps_first + 1]
    /\ UNCHANGED <<universe, envs, environment, stack, exc, call>>

\* calculate_first_open: the loop ends and the day's open is returned
SPFirstOpenDone ==
    /\ sp.pc = "first_open"
    /\ is_trading_day(environment, sp.cursor)
    /\ LET mkt_open == get_open_and_close(environment, sp.cursor)[1]
       IN  sp' = [sp EXCEPT !.pc = "last_close",
                            !.first_open = mkt_open,
                            !.cursor = sp.period_end]
    /\ UNCHANGED <<universe, envs, environment, stack, exc, call>>

\* calculate_last_close: one turn of the while loop
SPLastCloseStep ==
    /\ sp.pc = "last_close"
    /\ ~is_trading_day(environment, sp.cursor)
    /\ sp.cursor - one_day >= MinTs
    /\ sp' = [sp EXCEPT !.cursor = sp.cursor - one_day,
                        !.steps_last = sp.steps_last + 1]
    /\ UNCHANGED <<universe, envs, environment, stack, exc, call>>

\* the slice without its last day
WindowDaysExclusive(start_index, end_index) ==
    PySlice(envs[environment].trading_days, start_index, end_index)

\* environment.trading_days[start_index:end_index + 1]
WindowDays(start_index, end_index) ==
    PySlice(envs[environment].trading_days, start_index, end_index + 1)

\* calculate_last_close returns, then lines 238-245 take the slice
SPLastCloseDone ==
    /\ sp.pc = "last_close"
    /\ is_trading_day(environment, sp.cursor)
    /\ LET mkt_close == get_open_and_close(environment, sp.cursor)[2]
           start_index == get_index(environment, sp.first_open)
           end_index == get_index(environment, mkt_close)
       IN  sp' = [sp EXCEPT !.pc = "done",
                            !.last_close = mkt_close,
                            !.trading_days = WindowDays(start_index, end_index)]
    /\ UNCHANGED <<universe, envs, environment, stack, exc, call>>

days_in_period(s) == Len(s.trading_days)

----------------------------------------------------------------------------
(* Calendar queries on the active environment *)

QueryOps == {"is_trading_day", "get_index", "trading_day_distance"}

Query(op, a, b) ==
    /\ Ready
    /\ environment # NullRef
    /\ sp' = SpIdle
    /\ call' = [CallIdle EXCEPT
                   !.op = op, !.pc = "returned", !.self = environment,
                   !.a = a, !.b = b,
                   !.result =
                      CASE op = "is_trading_day" -> is_trading_day(environment, a)
                        [] op = "get_index" -> get_index(environment, a)
                        [] op = "trading_day_distance" ->
                               trading_day_distance(environment, a, b)]
    /\ envs' = Collect(envs, {environment} \cup StackRefs(stack))
    /\ UNCHANGED <<universe, environment, stack, exc>>

delta == TicksPerDay

\* the loop bounded by the first day of the calendar instead of the last
ntd_continues_first(self, dt) == dt <= envs[self].first_trading_day

\* the loop with no bound
ntd_continues_forever(self, dt) == TRUE

\* next_trading_day's loop condition
ntd_continues(self, dt) == dt <= envs[self].last_trading_day

NoFurtherDataError(last) == [raise |-> "NoFurtherDataError", last_successful_date |-> last]

\* the day found counted from the wrong end of the calendar
ReturnedMirrored(c, r) ==
    IF r = None
    THEN None
    ELSE Some(envs[c.self].last_trading_day - (r[1] - envs[c.self].first_trading_day))

\* what the caller of the running query gets once next_trading_day has
\* returned r: next_trading_day's own caller gets r, next_open_and_close goes on
Returned(c, r) ==
    IF c.op = "next_trading_day"
    THEN r
    ELSE IF r = None
         THEN NoFurtherDataError(envs[c.self].last_trading_day)
         ELSE get_open_and_close(c.self, r[1])

RaisedBy(c, r) ==
    IF c.op = "next_open_and_close" /\ r = None THEN "NoFurtherDataError" ELSE "none"

\* next_trading_day(test_date) or next_open_and_close(start_date) is called
NtdCall(op, test_date) ==
    /\ ReadyToRepeat
    /\ call.hist # <<>> => op = "next_trading_day"
    /\ environment # NullRef
    /\ sp' = SpIdle
    /\ call' = [CallIdle EXCEPT
                   !.op = op, !.pc = "loop", !.self = environment,
                   !.a = test_date, !.dt = normalize_date(test_date),
                   !.hist = call.hist]
    /\ envs' = Collect(envs, {environment} \cup StackRefs(stack))
    /\ UNCHANGED <<universe, environment, stack, exc>>

\* one turn of the while loop of next_trading_day
NtdLoop ==
    /\ call.pc = "loop"
    /\ ntd_continues(call.self, call.dt)
    /\ call.dt + delta <= MaxTs
    /\ LET dt == call.dt + delta
       IN  IF Contains(envs[call.self].trading_days, dt)
           THEN /\ call' = [call EXCEPT !.dt = dt, !.pc = "returned",
                                        !.result = Returned(call, Some(dt))]
                /\ exc' = RaisedBy(call, Some(dt))
           ELSE /\ call' = [call EXCEPT !.dt = dt]
                /\ exc' = exc
    /\ UNCHANGED <<universe, envs, environment, stack, sp>>

\* the loop runs out: next_trading_day returns None
NtdExhausted ==
    /\ call.pc = "loop"
    /\ ~ntd_continues(call.self, call.dt)
    /\ call' = [call EXCEPT !.pc = "returned", !.result = Returned(call, None)]
    /\ exc' = RaisedBy(call, None)
    /\ UNCHANGED <<universe, envs, environment, stack, sp>>

\* the caller lets go of the object built or the value returned; the result of
\* a next_trading_day call may be kept to compare with the next call's
Drop(keep) ==
    /\ ~Busy
    /\ exc = "none"
    /\ sp.pc # "idle" \/ call.pc # "idle" \/ call.hist # <<>>
    /\ keep => call.op = "next_trading_day" /\ call.pc = "returned"
    /\ sp' = SpIdle
    /\ call' = IF keep
               THEN [CallIdle EXCEPT !.self = call.self,
                                     !.hist = <<call.a, call.result>>]
               ELSE CallIdle
    /\ envs' = Collect(envs, Roots(environment, stack, sp', call'))
    /\ UNCHANGED <<universe, environment, stack, exc>>

----------------------------------------------------------------------------
(* Specifications *)

Init == \E u \in SUBSET Days : InitState(u)

Next ==
    \/ Ready /\ \E s, e \in Windows : SetEnvironment(s, e)
    \/ Ready /\ \E ps, pe \in Timestamps : SPBegin(ps, pe)
    \/ SPFirstOpenStep
    \/ SPFirstOpenDone
    \/ SPLastCloseStep
    \/ SPLastCloseDone
    \/ Ready /\ \E op \in QueryOps \ {"trading_day_distance"}, a \in Timestamps :
                  Query(op, a, a)
    \/ Ready /\ \E a, b \in Timestamps : Query("trading_day_distance", a, b)
    \/ ReadyToRepeat /\ \E op \in {"next_trading_day", "next_open_and_close"},
                            d \in Timestamps : NtdCall(op, d)
    \/ NtdLoop
    \/ NtdExhausted
    \/ Catch
    \/ \E keep \in BOOLEAN : Drop(keep)

Spec == Init /\ [][Next]_vars

\* The scoped override, on one calendar with a non-trading day at each end and
\* periods that begin and end at midnight
ScopeUniverse == {d \in Days : 0 < d /\ d < NumDays - 1}
ScopeDates == {Midnight(d) : d \in Days}
ScopeWindows == {None, Some(Midnight(0))}

InitScope == InitState(ScopeUniverse)

NextScope ==
    \/ Ready /\ \E s, e \in ScopeWindows : SetEnvironment(s, e)
    \/ Ready /\ \E s, e \in ScopeWindows : EnterNew(s, e)
    \/ Ready /\ \E self \in Refs : Enter(self)
    \/ Exit
    \/ Catch
    \/ Ready /\ \E ps, pe \in ScopeDates : SPBegin(ps, pe)
    \/ SPFirstOpenStep
    \/ SPFirstOpenDone
    \/ SPLastCloseStep
    \/ SPLastCloseDone
    \/ Ready /\ \E a \in ScopeDates : Query("get_index", a, a)
    \/ Ready /\ \E d \in ScopeDates : NtdCall("next_open_and_close", d)
    \/ NtdLoop
    \/ NtdExhausted
    \/ Drop(FALSE)

ScopeSpec == InitScope /\ [][NextScope]_vars

\* The stepping loops alone, with the fairness of a running interpreter: a loop
\* that can take its next turn, or leave, does so
LoopTurn ==
    \/ SPFirstOpenStep
    \/ SPFirstOpenDone
    \/ SPLastCloseStep
    \/ SPLastCloseDone
    \/ NtdLoop
    \/ NtdExhausted

NextLoops ==
    \/ Ready /\ SetEnvironment(None, None)
    \/ Ready /\ \E ps, pe \in Timestamps : SPBegin(ps, pe)
    \/ Ready /\ \E d \in Timestamps : NtdCall("next_trading_day", d)
    \/ LoopTurn
    \/ Catch
    \/ Drop(FALSE)

FairSpec == Init /\ [][NextLoops]_vars /\ WF_vars(LoopTurn)

----------------------------------------------------------------------------
(* What the properties are stated in *)

TradingDaySet(self) ==
    {envs[self].trading_days[i] : i \in 1..Len(envs[self].trading_days)}

\* the midnight of the day a timestamp falls on
DayStart(t) == Midnight(DateOf(t))

\* the 0-based position of trading day d in the calendar of self
PositionOf(self, d) ==
    CHOOSE i \in 0..(Len(envs[self].trading_days) - 1) : envs[self].trading_days[i + 1] = d

MinOf(S) == CHOOSE x \in S : \A y \in S : x <= y
MaxOf(S) == CHOOSE x \in S : \A y \in S : x >= y

OpenOn(self, d) == envs[self].open_and_closes[DateOf(d)].market_open
CloseOn(self, d) == envs[self].open_and_closes[DateOf(d)].market_close

Returns(op) == call.op = op /\ call.pc = "returned"

InRange(self, t) == DayStart(t) <= envs[self].last_trading_day

----------------------------------------------------------------------------
(* C1 *)

\* C1, as stated: for all dates a, b whose days are at or before the last
\* trading day, trading_day_distance(a, b) = get_index(b) - get_index(a).
C1_DistanceIsIndexDifference ==
    (Returns("trading_day_distance")
        /\ InRange(call.self, call.a) /\ InRange(call.self, call.b))
    => call.result = Some(get_index(call.self, call.b) - get_index(call.self, call.a))

\* C1, amended: the equality holds when a and b are both trading days or both
\* non-trading days; when only a is a trading day the distance is one more than
\* the difference of the indices, when only b is, one less.
C1_DistanceIsIndexDifferenceOnLikeDays ==
    (Returns("trading_day_distance")
        /\ InRange(call.self, call.a) /\ InRange(call.self, call.b))
    => LET ta == DayStart(call.a) \in TradingDaySet(call.self)
           tb == DayStart(call.b) \in TradingDaySet(call.self)
           diff == get_index(call.self, call.b) - get_index(call.self, call.a)
       IN  /\ (ta <=> tb) => call.result = Some(diff)
           /\ (ta /\ ~tb) => call.result = Some(diff + 1)
           /\ (~ta /\ tb) => call.result = Some(diff - 1)

C1_Witness ==
    /\ Returns("trading_day_distance")
    /\ InRange(call.self, call.a) /\ InRange(call.self, call.b)
    /\ DayStart(call.a) \notin TradingDaySet(call.self)
    /\ DayStart(call.b) \notin TradingDaySet(call.self)
    /\ call.result # None
    /\ call.result[1] > 0

----------------------------------------------------------------------------
(* C2 *)

\* C2: is_trading_day(d) tells whether the day of d is in the calendar; for a
\* trading day get_index(d) is its position in trading_days; for any other day
\* with a trading day before it, get_index(d) is the position of the latest
\* trading day before d, which is get_index of that day.
C2_GetIndexIsLatestDayAtOrBefore ==
    /\ Returns("is_trading_day")
          => (call.result <=> DayStart(call.a) \in TradingDaySet(call.self))
    /\ Returns("get_index")
          => LET day == DayStart(call.a)
                 upTo == {d \in TradingDaySet(call.self) : d <= day}
             IN  /\ day \in TradingDaySet(call.self)
                       => /\ is_trading_day(call.self, call.a)
                          /\ call.result = PositionOf(call.self, day)
                 /\ (day \notin TradingDaySet(call.self) /\ upTo # {})
                       => /\ call.result = PositionOf(call.self, MaxOf(upTo))
                          /\ call.result = get_index(call.self, MaxOf(upTo))

C2_Witness ==
    /\ Returns("get_index")
    /\ DayStart(call.a) \notin TradingDaySet(call.self)
    /\ \E x, y \in TradingDaySet(call.self) : x < call.a /\ call.a < y
    /\ call.a # DayStart(call.a)
    /\ call.result > 0

----------------------------------------------------------------------------
(* C3 *)

Built == sp.pc = "done"

\* C3: in a built SimulationParameters, first_open is the open of the earliest
\* trading day on or after the day of period_start and last_close is the close
\* of the latest trading day on or before the day of period_end; when the day
\* of period_start (period_end) is a trading day the forward (backward) loop
\* has made no turn and the open (close) is that day's own.
C3_BoundariesSnapToTradingDays ==
    Built =>
        LET self == sp.environment
            onOrAfter == {d \in TradingDaySet(self) : d >= DayStart(sp.period_start)}
            onOrBefore == {d \in TradingDaySet(self) : d <= DayStart(sp.period_end)}
        IN  /\ onOrAfter # {}
            /\ onOrBefore # {}
            /\ sp.first_open = OpenOn(self, MinOf(onOrAfter))
            /\ sp.last_close = CloseOn(self, MaxOf(onOrBefore))
            /\ DayStart(sp.period_start) \in TradingDaySet(self)
                  => /\ sp.steps_first = 0
                     /\ sp.first_open = OpenOn(self, sp.period_start)
            /\ DayStart(sp.period_end) \in TradingDaySet(self)
                  => /\ sp.steps_last = 0
                     /\ sp.last_close = CloseOn(self, sp.period_end)

C3_Witness ==
    /\ Built
    /\ sp.steps_first > 0
    /\ sp.steps_last > 0
    /\ sp.period_start # DayStart(sp.period_start)

----------------------------------------------------------------------------
(* C4 *)

----------------------------------------------------------------------------
(* C5 *)

\* C5, as stated: no SimulationParameters is built whose period_start is before
\* the first trading day of its environment.
C5_StartBeforeFirstDayFails ==
    Built => ~(sp.period_start < envs[sp.environment].first_trading_day)

\* the trading days the provider has within the dates of the period
DaysOfPeriod(s) ==
    {Midnight(d) : d \in {x \in universe :
                            DateOf(s.period_start) <= x /\ x <= DateOf(s.period_end)}}

\* C5, amended: construction fails exactly when the calendar of the period has
\* no trading day (IndexError), or period_start > period_end, or period_start
\* is after the last trading day, or period_end is before the first
\* (AssertionError); a period_start before the first trading day does not make
\* it fail.
C5_FailsExactlyOutsideHistory ==
    sp.pc # "idle" =>
        LET days == DaysOfPeriod(sp)
            outside == \/ sp.period_start > sp.period_end
                       \/ sp.period_start > MaxOf(days)
                       \/ sp.period_end < MinOf(days)
        IN  /\ sp.pc = "failed" <=> (days = {} \/ outside)
            /\ sp.pc = "failed" => (sp.error = "IndexError" <=> days = {})
            /\ sp.environment # NullRef =>
                  (sp.pc = "failed" <=>
                      \/ sp.period_start > sp.period_end
                      \/ sp.period_start > envs[sp.environment].last_trading_day
                      \/ sp.period_end < envs[sp.environment].first_trading_day)

C5_Witness ==
    /\ Built
    /\ sp.period_start < envs[sp.environment].first_trading_day

----------------------------------------------------------------------------
(* C6 *)

\* C6: next_trading_day(d) is None when the day of d is the last trading day or
\* later, and otherwise the earliest trading day after the day of d;
\* next_open_and_close(d) raises NoFurtherDataError, carrying the last trading
\* day, in exactly the first case and otherwise returns the open and close of
\* that earliest day.
C6_NextTradingDayOrNoFurtherData ==
    LET self == call.self
        later == {d \in TradingDaySet(self) : d > DayStart(call.a)}
        exhausted == DayStart(call.a) >= envs[self].last_trading_day
    IN  /\ Returns("next_trading_day") =>
              /\ exhausted => call.result = None
              /\ ~exhausted => later # {} /\ call.result = Some(MinOf(later))
        /\ Returns("next_open_and_close") =>
              /\ exhausted => call.result = NoFurtherDataError(envs[self].last_trading_day)
              /\ ~exhausted =>
                    /\ later # {}
                    /\ call.result = <<OpenOn(self, MinOf(later)), CloseOn(self, MinOf(later))>>
              /\ exc = "NoFurtherDataError" => exhausted
              /\ exc \in {"none", "NoFurtherDataError"}

C6_Witness ==
    /\ Returns("next_open_and_close")
    /\ DayStart(call.a) = envs[call.self].last_trading_day
    /\ call.a # DayStart(call.a)
    /\ exc = "NoFurtherDataError"
    /\ Len(envs[call.self].trading_days) > 1

----------------------------------------------------------------------------
(* C7 *)

\* C7: of two next_trading_day calls on the same environment that both return a
\* day, the call with the earlier argument does not return the later day.
C7_NextTradingDayMonotonic ==
    (Returns("next_trading_day") /\ call.hist # <<>>)
    => LET d1 == call.hist[1]
           r1 == call.hist[2]
           d2 == call.a
           r2 == call.result
       IN  (r1 # None /\ r2 # None) =>
               /\ d1 < d2 => r1[1] <= r2[1]
               /\ d2 < d1 => r2[1] <= r1[1]

C7_Witness ==
    /\ Returns("next_trading_day")
    /\ call.hist # <<>>
    /\ call.hist[2] # None
    /\ call.result # None
    /\ call.hist[1] < call.a
    /\ call.hist[2][1] < call.result[1]

----------------------------------------------------------------------------
(* C8 *)

\* C8: every exit of a with block leaves as the active environment the one that
\* was active just before the matching entry.
C8_ExitRestoresPrior ==
    [][Len(stack') < Len(stack) => environment' = stack[Len(stack)].before]_vars

----------------------------------------------------------------------------
(* C9 *)

\* C9: while a with block is the innermost open one, the active environment is
\* the instance the block was entered on.
C9_ScopedInstanceIsActive ==
    stack # <<>> => environment = stack[Len(stack)].inst

----------------------------------------------------------------------------
(* C10 *)

\* C10: every stepping loop ends: next_trading_day returns, the forward search
\* of calculate_first_open stops without passing the last trading day and the
\* backward search of calculate_last_close stops without passing the first.
C10_SteppingLoopsEnd ==
    /\ [](sp.pc = "first_open"
            => DayStart(sp.cursor) <= envs[sp.environment].last_trading_day)
    /\ [](sp.pc = "last_close"
            => DayStart(sp.cursor) >= envs[sp.environment].first_trading_day)
    /\ (call.pc = "loop") ~> (call.pc = "returned")
    /\ (sp.pc = "first_open") ~> (sp.pc = "last_close")
    /\ (sp.pc = "last_close") ~> Built

C10_Witness ==
    /\ Built
    /\ sp.steps_first > 1
    /\ sp.steps_last > 0

====
